---- MODULE Spec2Model ----
(***************************************************************************)
(* A model of imgurs (src/main.rs): the filename policy of main, the       *)
(* per-file download_file protocol (temp file, stream, rename, mtime), the *)
(* buffer_unordered scheduler that runs it over the album's images,        *)
(* prepare_directory, and main from the album request to the exit status.  *)
(*                                                                         *)
(* Strings are sequences of one-character strings, so that formatting,     *)
(* padding and splitting are computed character by character.              *)
(***************************************************************************)
EXTENDS Integers, Sequences, FiniteSets, TLC

(***************************************************************************)
(* Bounds of the model.                                                    *)
(***************************************************************************)
\* Albums of 1..MaxCount images are named exhaustively.
MaxCount == 11
\* One larger album size, the three-digit scenario.
ScenarioCount == 100

\* The scheduler runs albums of 1..MaxItems images,
MaxItems == 2
\* with a concurrency limit of 1..MaxParallelism,
MaxParallelism == 2
\* and response bodies of 0..MaxChunks chunks.
MaxChunks == 2

\* One larger album for the summary: ScenarioItems images in an empty
\* directory, one of them with a link that is no URL.
ScenarioItems == 3

\* Destination paths have 1..MaxDepth components,
MaxDepth == 3
\* and prepare_directory is called up to MaxCalls times in a row on one.
MaxCalls == 3

\* The download stage is entered up to MaxRuns times on one directory.
MaxRuns == 2

\* i32::MAX, the range of `num_files as i32`.
I32Max == 2147483647

(***************************************************************************)
(* Strings and Option<String>.                                             *)
(***************************************************************************)
None == [some |-> FALSE, v |-> <<>>]
Some(s) == [some |-> TRUE, v |-> s]

DigitChars == <<"0", "1", "2", "3", "4", "5", "6", "7", "8", "9">>

\* Display of an unsigned integer in decimal, as `{}` formats it.
RECURSIVE Decimal(_)
Decimal(n) ==
    IF n < 10 THEN <<DigitChars[n + 1]>>
    ELSE Decimal(n \div 10) \o <<DigitChars[(n % 10) + 1]>>

\* `{:0>width$}`: right-aligned, filled with '0' up to width, never truncated.
PadLeftZero(s, w) ==
    IF Len(s) >= w THEN s ELSE [k \in 1..(w - Len(s)) |-> "0"] \o s

\* Position of the first '/' of s, 0 when there is none.
FirstSlash(s) ==
    IF \E k \in 1..Len(s) : s[k] = "/"
    THEN CHOOSE k \in 1..Len(s) : s[k] = "/" /\ \A j \in 1..(k - 1) : s[j] # "/"
    ELSE 0

\* str::split_once("/"): the text before and after the first '/', if any.
split_once(s) ==
    LET p == FirstSlash(s) IN
    IF p = 0 THEN None
    ELSE Some(<<SubSeq(s, 1, p - 1), SubSeq(s, p + 1, Len(s))>>)

\* get_media_type: the subtype after the first '/', "unknown" without one,
\* and "jpeg" renamed to "jpg".
get_media_type(content_type) ==
    LET parts == split_once(content_type)
        subtype == IF parts.some THEN parts.v[2]
                   ELSE <<"u", "n", "k", "n", "o", "w", "n">>
    IN  IF subtype = <<"j", "p", "e", "g">> THEN <<"j", "p", "g">> ELSE subtype

(***************************************************************************)
(* The filename policy of main.                                            *)
(***************************************************************************)
\* `num_files as i32`: the low 32 bits, read as a signed integer.
AsI32(n) == IF n <= I32Max THEN n ELSE n - I32Max - I32Max - 2

\* The loop of the `width` block stopping one digit early.
RECURSIVE WidthLoopShort(_, _)
WidthLoopShort(width, count) ==
    IF width > 9 THEN WidthLoopShort(width \div 10, count + 1) ELSE count

\* The loop of the `width` block: divide by ten until nothing is left.
RECURSIVE WidthLoop(_, _)
WidthLoop(width, count) ==
    IF width > 0 THEN WidthLoop(width \div 10, count + 1) ELSE count

WidthOf(n) == WidthLoop(AsI32(n), 0)

\* " - {}" for Some, "" for None.
DashPart(opt) == IF opt.some THEN <<" ", "-", " ">> \o opt.v ELSE <<>>

\* format!("{:0>width$} - {}{}{}.{}", index + 1, id, title, description, type)
Filename(idx, m, w) ==
    PadLeftZero(Decimal(idx + 1), w) \o <<" ", "-", " ">> \o m.id
        \o DashPart(m.title) \o DashPart(m.description)
        \o <<".">> \o get_media_type(m.content_type)

\* A temp name that does not carry the filename.
TempFilenameBare(name) == <<"~", "!">>

\* format!("~!{}", filename)
TempFilename(name) == <<"~", "!">> \o name

(***************************************************************************)
(* Inputs: the fields of ImgurMedia the policy reads.                      *)
(***************************************************************************)
\* A small album population: with and without title and description, a
\* title holding '/', a numeric id, and the content types that take each
\* branch of get_media_type.
Jpeg == <<"i", "m", "a", "g", "e", "/", "j", "p", "e", "g">>
Png == <<"i", "m", "a", "g", "e", "/", "p", "n", "g">>

Media(id, title, description, content_type) ==
    [id |-> id, title |-> title, description |-> description,
     content_type |-> content_type]

ImgurMedia ==
    { Media(<<"a">>, None, None, Jpeg),
      Media(<<"a">>, Some(<<"t">>), Some(<<"d">>), Png),
      Media(<<"1">>, None, Some(<<"d">>), <<"j", "p", "e", "g">>),
      Media(<<"a">>, Some(<<"t", "/", "u">>), None, Jpeg),
      Media(<<"a">>, None, None, <<"a", "/", "b", "/", "c">>),
      Media(<<"a", " ", "-", " ", "t">>, None, None, Png) }

Counts == (1..MaxCount) \cup {ScenarioCount}

VARIABLES
    \* -- the filename policy --
    num_files,      \* data.images.len()
    width,          \* the padding width computed from num_files
    index,          \* the next index `enumerate` hands to the closure
    filename,       \* the filename the closure produced last
    temp_filename,  \* "~!" + filename, as the scheduler's closure builds it
    earlier,        \* one filename produced for an earlier index, if remembered
    npc,            \* position in main: "album", "prepare", "create_dir_all",
                    \* "prepared", "width", "map", "stream", "printed", "exit"
    \* -- the inputs of the download stage --
    images,         \* data.images, the fields the filename reads
    url_ok,         \* per image: does media.link parse as a URL
    parallelism,    \* args.parallelism
    \* -- the file system under the destination directory --
    fs0,            \* the directory's contents when the run began
    fs,             \* path -> [kind, ino]
    landed,         \* per inode: chunks that have reached the file
    mtime,          \* per inode: "none", "now" (set by a write) or "stamp"
    \* -- one download future per image --
    pc,             \* position of the future
    got,            \* chunks received from the response
    pending,        \* a write handed to the blocking pool is still in flight
    werr,           \* the last background write failed, not yet reported
    netcalls,       \* GET requests sent for the image
    result,         \* what the future returned: "none", an Ok or an Err cause
    began,          \* what metadata(destination) found when the fetch asked
    fault,          \* the operation of this fetch that an I/O or network
                    \* error of its own hit, "none" without one
    kept_temp,      \* remove_file(temp_path) failed on a file that was there
    \* -- the scheduler and the summary --
    started,        \* per image: how often the stream handed it to the closure
    yielded,        \* per image: how many results buffer_unordered yielded
    errors,         \* the collected Vec of errors, in completion order
    downloaded,     \* the count the summary prints, -1 before
    pb,             \* per image: its progress bar, [state, position]
    \* -- main before the stream, and the process --
    album,          \* how the album request went: "pending", "error",
                    \* "nodata", "details", "empty" or "data"
    tree,           \* the kind of entry at each prefix of the destination path
    prepared,       \* one record per call of prepare_directory
    exit_code,      \* -1 while main runs, then the exit status of the process
    \* -- runs over the same directory --
    run,            \* how many times the download stage was entered
    satisfied       \* per image: the run before ended Succeeded or Skipped

namingVars == <<num_files, width, index, filename, temp_filename, earlier, npc>>
inputVars == <<images, url_ok, parallelism>>
fsVars == <<fs0, fs, landed, mtime>>
futVars == <<pc, got, pending, werr, netcalls, result, began, fault, kept_temp>>
schedVars == <<started, yielded, errors, downloaded>>
mainVars == <<album, tree, prepared, exit_code>>
rerunVars == <<run, satisfied>>

vars == <<namingVars, inputVars, fsVars, futVars, schedVars, pb, mainVars, rerunVars>>

NoName == [idx |-> -1, name |-> <<>>]

InitNaming ==
    /\ num_files \in Counts
    /\ width = 0
    /\ index = 0
    /\ filename = <<>>
    /\ temp_filename = <<>>
    /\ earlier = NoName
    /\ npc = "width"
    /\ images = <<>>
    /\ url_ok = <<>>
    /\ parallelism = 1
    /\ fs0 = <<>>
    /\ fs = <<>>
    /\ landed = <<>>
    /\ mtime = <<>>
    /\ pc = <<>>
    /\ got = <<>>
    /\ pending = <<>>
    /\ werr = <<>>
    /\ netcalls = <<>>
    /\ result = <<>>
    /\ began = <<>>
    /\ fault = <<>>
    /\ kept_temp = <<>>
    /\ started = <<>>
    /\ yielded = <<>>
    /\ errors = <<>>
    /\ downloaded = -1
    /\ pb = <<>>
    /\ album = "data"
    /\ tree = <<>>
    /\ prepared = <<>>
    /\ exit_code = -1
    /\ run = 1
    /\ satisfied = <<>>

\* let width = { ... };
ComputeWidth ==
    /\ npc = "width"
    /\ width' = WidthOf(num_files)
    /\ npc' = "map"
    /\ UNCHANGED <<num_files, index, filename, temp_filename, earlier>>
    /\ UNCHANGED <<inputVars, fsVars, futVars, schedVars, pb, mainVars, rerunVars>>

\* One call of the `map` closure over data.images.iter().enumerate(); the
\* image's fields are the input.  `earlier` may keep the previous filename.
MapItem ==
    /\ npc = "map"
    /\ index < num_files
    /\ \E m \in ImgurMedia :
         /\ filename' = Filename(index, m, width)
         /\ temp_filename' = TempFilename(Filename(index, m, width))
    /\ \/ earlier' = earlier
       \/ /\ index > 0
          /\ earlier' = [idx |-> index - 1, name |-> filename]
    /\ index' = index + 1
    /\ UNCHANGED <<num_files, width, npc>>
    /\ UNCHANGED <<inputVars, fsVars, futVars, schedVars, pb, mainVars, rerunVars>>

NextNaming == ComputeWidth \/ MapItem

SpecNaming == InitNaming /\ [][NextNaming]_vars

(***************************************************************************)
(* prepare_directory and the file system above the destination directory.  *)
(***************************************************************************)
\* The destination path has one entry per prefix: nothing, a directory, a
\* regular file, or ("locked") a directory that may not be searched.  Below
\* anything but a directory there is nothing, and the path itself is never
\* a locked directory.
TreeKinds == {"absent", "dir", "file", "locked"}

Trees ==
    UNION { { t \in [1..d -> TreeKinds] :
                /\ t[d] # "locked"
                /\ \A k \in 1..(d - 1) : t[k] # "dir" => t[k + 1] = "absent" }
            : d \in 1..MaxDepth }

\* The first prefix that is not a directory, 0 if all are.
FirstNonDir(t) ==
    IF \A k \in 1..Len(t) : t[k] = "dir" THEN 0
    ELSE CHOOSE k \in 1..Len(t) :
             t[k] # "dir" /\ \A j \in 1..(k - 1) : t[j] = "dir"

\* tokio::fs::metadata(path): the kind of the entry, or the error kind.
Stat(t) ==
    LET k == FirstNonDir(t) IN
    CASE k = 0 -> "dir"
      [] t[k] = "absent" -> "NotFound"
      [] t[k] = "locked" -> "PermissionDenied"
      [] k = Len(t) -> "file"
      [] OTHER -> "Other"

\* A create_dir that makes the last component only.
CreateDirOnly(t) ==
    [k \in 1..Len(t) |->
        IF k = Len(t) /\ t[k] = "absent" /\ \A j \in 1..(k - 1) : t[j] = "dir"
        THEN "dir"
        ELSE t[k]]

\* tokio::fs::create_dir_all(path): every missing prefix becomes a
\* directory, up to the first prefix that is in the way.
CreateDirAll(t) ==
    [k \in 1..Len(t) |->
        IF t[k] = "absent" /\ \A j \in 1..(k - 1) : t[j] \in {"absent", "dir"}
        THEN "dir"
        ELSE t[k]]

\* The record of a call that found a directory: Ok(()), nothing changed.
FoundDirectory(t) ==
    [saw |-> "dir", result |-> "Ok", before |-> t, after |-> t]

\* tokio::fs::metadata(path.clone()) and the branches that return at once.
PrepMetadata ==
    /\ npc = "prepare"
    /\ LET saw == Stat(tree) IN
       /\ prepared' = Append(prepared,
              [saw |-> saw,
               result |-> CASE saw = "NotFound" -> "running"
                            [] saw = "dir" -> "Ok"
                            [] saw = "file" -> "DestinationIsFile"
                            [] OTHER -> "MetadataUnavailable",
               before |-> tree,
               after |-> tree])
       /\ npc' = IF saw = "NotFound" THEN "create_dir_all" ELSE "prepared"
    /\ UNCHANGED <<num_files, width, index, filename, temp_filename, earlier>>
    /\ UNCHANGED <<inputVars, fsVars, futVars, schedVars, pb, rerunVars>>
    /\ UNCHANGED <<album, tree, exit_code>>

\* The NotFound branch: tokio::fs::create_dir_all(path).await?; Ok(()).
PrepCreateDirAll ==
    /\ npc = "create_dir_all"
    /\ tree' = CreateDirAll(tree)
    /\ prepared' = [prepared EXCEPT ![Len(prepared)] =
           [@ EXCEPT !.result = IF Stat(CreateDirAll(tree)) = "dir"
                                THEN "Ok" ELSE "IoFailure",
                     !.after = CreateDirAll(tree)]]
    /\ npc' = "prepared"
    /\ UNCHANGED <<num_files, width, index, filename, temp_filename, earlier>>
    /\ UNCHANGED <<inputVars, fsVars, futVars, schedVars, pb, rerunVars>>
    /\ UNCHANGED <<album, exit_code>>

\* Another process creates the missing directory, one component at a time,
\* while prepare_directory is running.
OtherProcessCreates ==
    /\ npc \in {"prepare", "create_dir_all"}
    /\ Stat(tree) = "NotFound"
    /\ tree' = [tree EXCEPT ![FirstNonDir(tree)] = "dir"]
    /\ UNCHANGED <<namingVars, inputVars, fsVars, futVars, schedVars, pb, rerunVars>>
    /\ UNCHANGED <<album, prepared, exit_code>>

\* prepare_directory is called once more on the same path.
CallAgain ==
    /\ npc = "prepared"
    /\ Len(prepared) < MaxCalls
    /\ npc' = "prepare"
    /\ UNCHANGED <<num_files, width, index, filename, temp_filename, earlier>>
    /\ UNCHANGED <<inputVars, fsVars, futVars, schedVars, pb, mainVars, rerunVars>>

InitPrepare ==
    /\ num_files = 0
    /\ width = 0
    /\ index = 0
    /\ filename = <<>>
    /\ temp_filename = <<>>
    /\ earlier = NoName
    /\ npc = "prepare"
    /\ images = <<>>
    /\ url_ok = <<>>
    /\ parallelism = 1
    /\ fs0 = <<>>
    /\ fs = <<>>
    /\ landed = <<>>
    /\ mtime = <<>>
    /\ pc = <<>>
    /\ got = <<>>
    /\ pending = <<>>
    /\ werr = <<>>
    /\ netcalls = <<>>
    /\ result = <<>>
    /\ began = <<>>
    /\ fault = <<>>
    /\ kept_temp = <<>>
    /\ started = <<>>
    /\ yielded = <<>>
    /\ errors = <<>>
    /\ downloaded = -1
    /\ pb = <<>>
    /\ album = "data"
    /\ tree \in Trees
    /\ prepared = <<>>
    /\ exit_code = -1
    /\ run = 1
    /\ satisfied = <<>>

NextPrepare ==
    \/ PrepMetadata
    \/ PrepCreateDirAll
    \/ OtherProcessCreates
    \/ CallAgain

SpecPrepare == InitPrepare /\ [][NextPrepare]_vars

(***************************************************************************)
(* The download stage: the stream of main, download_file for each image,   *)
(* and the file system they act on.                                        *)
(***************************************************************************)
\* A progress bar that is not on the display yet: ProgressBar::new, at 0.
NoBar == [state |-> "none", position |-> 0]

\* The images of the albums the download stage is run on.
SchedMedia == { Media(<<"a">>, None, None, Jpeg) }

\* args.output, the directory every path is joined to.
Destination == <<"o">>

\* PathBuf::join for a relative name: the directory, a separator, the name.
Join(dir, name) == dir \o <<"/">> \o name

Items == 1..num_files

\* let path = destination.join(filename.clone());
Path(i) == Join(Destination, Filename(i - 1, images[i], width))

\* A temp path that leaves the filename out, so that all fetches share it.
TempPathShared(i) == Join(Destination, <<"~", "!">>)

\* let temp_path = destination.join(temp_filename);
TempPath(i) == Join(Destination, TempFilename(Filename(i - 1, images[i], width)))

Paths == { Path(i) : i \in Items } \cup { TempPath(i) : i \in Items }

\* Directory entries.  Inode 0 stands for a file that was there before the
\* run; inode i is the file that the fetch of image i created.  "denied" is
\* an entry whose metadata cannot be read.
Absent == [kind |-> "absent", ino |-> 0]
Dir == [kind |-> "dir", ino |-> 0]
Denied == [kind |-> "denied", ino |-> 0]
File(n) == [kind |-> "file", ino |-> n]

\* What the destination directory may hold when the run begins: at a final
\* path nothing, a regular file, a directory or an unreadable entry; at a
\* temp path nothing or a regular file.
InitialFs ==
    { f \in [Paths -> {Absent, Dir, Denied, File(0)}] :
        \A i \in Items : f[TempPath(i)] \in {Absent, File(0)} }

InitSched ==
    /\ num_files \in 1..MaxItems
    /\ width = WidthOf(num_files)
    /\ index = 0
    /\ filename = <<>>
    /\ temp_filename = <<>>
    /\ earlier = NoName
    /\ npc = "stream"
    /\ images \in [1..num_files -> SchedMedia]
    /\ url_ok \in [1..num_files -> BOOLEAN]
    /\ parallelism \in 1..MaxParallelism
    /\ fs0 \in InitialFs
    /\ fs = fs0
    /\ landed = [i \in Items |-> 0]
    /\ mtime = [i \in Items |-> "none"]
    /\ pc = [i \in Items |-> "queued"]
    /\ got = [i \in Items |-> 0]
    /\ pending = [i \in Items |-> FALSE]
    /\ werr = [i \in Items |-> FALSE]
    /\ netcalls = [i \in Items |-> 0]
    /\ result = [i \in Items |-> "none"]
    /\ began = [i \in Items |-> "none"]
    /\ fault = [i \in Items |-> "none"]
    /\ kept_temp = [i \in Items |-> FALSE]
    /\ started = [i \in Items |-> 0]
    /\ yielded = [i \in Items |-> 0]
    /\ errors = <<>>
    /\ downloaded = -1
    /\ pb = [i \in Items |-> NoBar]
    /\ album = "data"
    /\ tree = <<"dir">>
    /\ prepared = <<FoundDirectory(<<"dir">>)>>
    /\ exit_code = -1
    /\ run = 1
    /\ satisfied = [i \in Items |-> FALSE]

\* The futures buffer_unordered holds: handed out by the stream, result not
\* yet yielded.
InFlight == { i \in Items : pc[i] \notin {"queued", "done"} }

\* A buffer that admits one future more than its limit.
HasRoomOffByOne == Cardinality(InFlight) <= parallelism

\* A buffer that keeps one slot unused.
HasRoomStrict == Cardinality(InFlight) < parallelism - 1

\* buffer_unordered(args.parallelism) pulls from the stream only while it
\* holds fewer futures than its limit.
HasRoom == Cardinality(InFlight) < parallelism

\* A stream that ends as soon as the iterator is exhausted, whatever is
\* still in the buffer.
StreamDoneEarly == \A i \in Items : pc[i] # "queued"

\* The buffered stream ends, and collect returns, when the iterator is
\* exhausted and no future is left in the buffer.
StreamDone == \A i \in Items : pc[i] = "done"

\* download_file returned Err(cause): the async block goes on to remove_file.
Fail(i, cause) ==
    /\ result' = [result EXCEPT ![i] = cause]
    /\ pc' = [pc EXCEPT ![i] = "remove"]

\* An operation failed with an error of its own (disk, network).
Fault(i, op, cause) ==
    /\ fault' = [fault EXCEPT ![i] = op]
    /\ Fail(i, cause)

\* The future returned Ok: pb.finish_and_clear(), buffer_unordered yields the
\* result, filter_map drops it.
YieldOk(i, how) ==
    /\ result' = [result EXCEPT ![i] = how]
    /\ pb' = [pb EXCEPT ![i].state = "finished"]
    /\ pc' = [pc EXCEPT ![i] = "done"]
    /\ yielded' = [yielded EXCEPT ![i] = @ + 1]
    /\ errors' = errors

\* A stream that hands out any image it still holds.
IsAnyOfStream(i) == pc[i] = "queued"

\* stream::iter(media) hands the images out in the order of the album: the
\* next one is the first that has not been handed out.
IsNextOfStream(i) ==
    /\ pc[i] = "queued"
    /\ \A j \in 1..(i - 1) : pc[j] # "queued"

\* buffer_unordered pulls the next image from the stream while fewer than
\* `parallelism` futures are in flight; the closure adds the image's progress
\* bar to the display and builds the future, whose first poll runs Url::parse.
Pull(i) ==
    /\ npc = "stream"
    /\ IsNextOfStream(i)
    /\ HasRoom
    /\ started' = [started EXCEPT ![i] = @ + 1]
    /\ pb' = [pb EXCEPT ![i].state = "active"]
    /\ IF url_ok[i]
       THEN /\ pc' = [pc EXCEPT ![i] = "metadata"]
            /\ result' = result
       ELSE Fail(i, "UrlInvalid")
    /\ UNCHANGED <<namingVars, inputVars, fsVars>>
    /\ UNCHANGED <<got, pending, werr, netcalls, began, fault, kept_temp>>
    /\ UNCHANGED <<yielded, errors, downloaded>>
    /\ UNCHANGED <<mainVars, rerunVars>>

\* A check that looks at the temp path.
SeenAtTemp(i) == fs[TempPath(i)].kind

\* What tokio::fs::metadata(destination) reports: the entry at the final
\* path.
SeenAt(i) == fs[Path(i)].kind

\* tokio::fs::metadata(destination) and the early exit on an existing entry;
\* NotFound goes on to the download, any other error fails the fetch.
Metadata(i) ==
    /\ pc[i] = "metadata"
    /\ began' = [began EXCEPT ![i] = SeenAt(i)]
    /\ CASE SeenAt(i) = "file" ->
              /\ YieldOk(i, "Skipped")
         [] SeenAt(i) = "dir" ->
              /\ Fail(i, "DestinationIsDirectory")
              /\ UNCHANGED <<yielded, errors, pb>>
         [] SeenAt(i) = "denied" ->
              /\ Fail(i, "MetadataUnavailable")
              /\ UNCHANGED <<yielded, errors, pb>>
         [] OTHER ->
              /\ pc' = [pc EXCEPT ![i] = "create"]
              /\ UNCHANGED <<result, yielded, errors, pb>>
    /\ UNCHANGED <<namingVars, inputVars, fsVars>>
    /\ UNCHANGED <<got, pending, werr, netcalls, fault, kept_temp, started, downloaded>>
    /\ UNCHANGED <<mainVars, rerunVars>>

\* tokio::fs::File::create(temp_destination): creates the file, or truncates
\* the one that is there; fails on a directory or on an I/O error.
Create(i) ==
    /\ pc[i] = "create"
    /\ \/ /\ fs[TempPath(i)].kind \in {"absent", "file"}
          /\ fs' = [fs EXCEPT ![TempPath(i)] = File(i)]
          /\ landed' = [landed EXCEPT ![i] = 0]
          /\ mtime' = [mtime EXCEPT ![i] = "now"]
          /\ pc' = [pc EXCEPT ![i] = "send"]
          /\ UNCHANGED <<result, fault>>
       \/ /\ fs[TempPath(i)].kind \in {"absent", "file"}
          /\ Fault(i, "create", "IoFailure")
          /\ UNCHANGED <<fs, landed, mtime>>
       \/ /\ fs[TempPath(i)].kind \notin {"absent", "file"}
          /\ Fail(i, "IoFailure")
          /\ UNCHANGED <<fs, landed, mtime, fault>>
    /\ UNCHANGED <<namingVars, inputVars, schedVars>>
    /\ UNCHANGED <<fs0, got, pending, werr, netcalls, began, kept_temp>>
    /\ UNCHANGED <<pb, mainVars, rerunVars>>

\* client.get(download_url).send(): the one request of the fetch.
Send(i) ==
    /\ pc[i] = "send"
    /\ netcalls' = [netcalls EXCEPT ![i] = @ + 1]
    /\ \/ /\ pc' = [pc EXCEPT ![i] = "chunk"]
          /\ UNCHANGED <<result, fault>>
       \/ Fault(i, "send", "NetworkFailure")
    /\ UNCHANGED <<namingVars, inputVars, fsVars, schedVars>>
    /\ UNCHANGED <<got, pending, werr, began, kept_temp>>
    /\ UNCHANGED <<pb, mainVars, rerunVars>>

\* res.chunk(): a chunk (pb.inc by its length, then write_all), the end of
\* the body, or a network error.  Every chunk is one unit long.
Chunk(i) ==
    /\ pc[i] = "chunk"
    /\ \/ /\ got[i] < MaxChunks
          /\ got' = [got EXCEPT ![i] = @ + 1]
          /\ pb' = [pb EXCEPT ![i].position = @ + 1]
          /\ pc' = [pc EXCEPT ![i] = "write"]
          /\ UNCHANGED <<result, fault>>
       \/ /\ pc' = [pc EXCEPT ![i] = "rename"]
          /\ UNCHANGED <<got, pb, result, fault>>
       \/ /\ Fault(i, "chunk", "NetworkFailure")
          /\ UNCHANGED <<got, pb>>
    /\ UNCHANGED <<namingVars, inputVars, fsVars, schedVars>>
    /\ UNCHANGED <<pending, werr, netcalls, began, kept_temp>>
    /\ UNCHANGED <<mainVars, rerunVars>>

\* file.write_all(chunk) on a tokio File: waits for the write handed over
\* before, reports its error if it failed, then hands this chunk to the
\* blocking pool and returns Ok without waiting for it.
WriteAll(i) ==
    /\ pc[i] = "write"
    /\ ~pending[i]
    /\ IF werr[i]
       THEN /\ Fault(i, "write", "IoFailure")
            /\ werr' = [werr EXCEPT ![i] = FALSE]
            /\ pending' = pending
       ELSE /\ pending' = [pending EXCEPT ![i] = TRUE]
            /\ pc' = [pc EXCEPT ![i] = "chunk"]
            /\ UNCHANGED <<werr, result, fault>>
    /\ UNCHANGED <<namingVars, inputVars, fsVars, schedVars>>
    /\ UNCHANGED <<got, netcalls, began, kept_temp>>
    /\ UNCHANGED <<pb, mainVars, rerunVars>>

\* The blocking pool runs the write that write_all handed over: the chunk
\* reaches the inode the handle is open on (whatever path names it by now),
\* or the write fails.  Nothing between write_all and rename waits for it:
\* the file is never flushed.
BackgroundWrite(i) ==
    /\ pending[i]
    /\ pending' = [pending EXCEPT ![i] = FALSE]
    /\ \/ /\ landed' = [landed EXCEPT ![i] = @ + 1]
          /\ mtime' = [mtime EXCEPT ![i] = "now"]
          /\ werr' = werr
       \/ /\ werr' = [werr EXCEPT ![i] = TRUE]
          /\ UNCHANGED <<landed, mtime>>
    /\ UNCHANGED <<namingVars, inputVars, schedVars>>
    /\ UNCHANGED <<fs0, fs, pc, got, netcalls, result, began, fault, kept_temp>>
    /\ UNCHANGED <<pb, mainVars, rerunVars>>

\* rename(2) can move the temp file onto the final path.
CanRename(i) == fs[TempPath(i)].kind = "file" /\ fs[Path(i)].kind \in {"absent", "file"}

\* tokio::fs::rename(temp_destination, destination).
Rename(i) ==
    /\ pc[i] = "rename"
    /\ \/ /\ CanRename(i)
          /\ fs' = [fs EXCEPT ![Path(i)] = fs[TempPath(i)],
                              ![TempPath(i)] = Absent]
          /\ pc' = [pc EXCEPT ![i] = "mtime"]
          /\ UNCHANGED <<result, fault>>
       \/ /\ CanRename(i)
          /\ Fault(i, "rename", "IoFailure")
          /\ fs' = fs
       \/ /\ ~CanRename(i)
          /\ Fail(i, "IoFailure")
          /\ UNCHANGED <<fs, fault>>
    /\ UNCHANGED <<namingVars, inputVars, schedVars>>
    /\ UNCHANGED <<fs0, landed, mtime, got, pending, werr, netcalls, began, kept_temp>>
    /\ UNCHANGED <<pb, mainVars, rerunVars>>

\* filetime::set_file_mtime(destination, time_since_epoch), then Ok(()).
SetMtime(i) ==
    /\ pc[i] = "mtime"
    /\ \/ /\ fs[Path(i)].kind = "file"
          /\ mtime' = IF fs[Path(i)].ino \in Items
                      THEN [mtime EXCEPT ![fs[Path(i)].ino] = "stamp"]
                      ELSE mtime
          /\ YieldOk(i, "Succeeded")
          /\ fault' = fault
       \/ /\ fs[Path(i)].kind = "file"
          /\ Fault(i, "mtime", "IoFailure")
          /\ UNCHANGED <<mtime, yielded, errors, pb>>
       \/ /\ fs[Path(i)].kind # "file"
          /\ Fail(i, "IoFailure")
          /\ UNCHANGED <<mtime, yielded, errors, fault, pb>>
    /\ UNCHANGED <<namingVars, inputVars>>
    /\ UNCHANGED <<fs0, fs, landed, got, pending, werr, netcalls, began, kept_temp>>
    /\ UNCHANGED <<started, downloaded>>
    /\ UNCHANGED <<mainVars, rerunVars>>

\* An Err branch that does not clean up.
AfterNoRemove(i) == fs

\* The directory after tokio::fs::remove_file(temp_path): a regular file at
\* the temp path is unlinked, anything else makes the call fail.
AfterRemoveFile(i) ==
    IF fs[TempPath(i)].kind = "file"
    THEN [fs EXCEPT ![TempPath(i)] = Absent]
    ELSE fs

\* The Err branch of the async block: remove_file(temp_path), its own result
\* ignored (it may fail even on a file that is there), and the progress bar
\* left as it is; then the error, put in the context of the filename, is
\* yielded and collect pushes it.
RemoveFile(i) ==
    /\ pc[i] = "remove"
    /\ \/ /\ fs' = AfterRemoveFile(i)
          /\ kept_temp' = kept_temp
       \/ /\ fs[TempPath(i)].kind = "file"
          /\ fs' = fs
          /\ kept_temp' = [kept_temp EXCEPT ![i] = TRUE]
    /\ pc' = [pc EXCEPT ![i] = "done"]
    /\ yielded' = [yielded EXCEPT ![i] = @ + 1]
    /\ errors' = Append(errors, [item |-> i,
                                 file |-> Filename(i - 1, images[i], width),
                                 cause |-> result[i]])
    /\ UNCHANGED <<namingVars, inputVars>>
    /\ UNCHANGED <<fs0, landed, mtime, got, pending, werr, netcalls, result, began, fault>>
    /\ UNCHANGED <<started, downloaded>>
    /\ UNCHANGED <<pb, mainVars, rerunVars>>

\* A summary that counts every image as downloaded.
DownloadedCountAll == num_files

\* The first number of the summary: num_files - errors.len().
DownloadedCount == num_files - Len(errors)

\* collect returns and main prints "Downloaded {}/{} files." with the count
\* of downloaded files, then every collected error, and returns Ok(()).
PrintSummary ==
    /\ npc = "stream"
    /\ StreamDone
    /\ downloaded' = DownloadedCount
    /\ npc' = "printed"
    /\ exit_code' = 0
    /\ UNCHANGED <<num_files, width, index, filename, temp_filename, earlier>>
    /\ UNCHANGED <<inputVars, fsVars, futVars, started, yielded, errors>>
    /\ UNCHANGED <<pb, album, tree, prepared, rerunVars>>

Next ==
    \/ \E i \in Items : Pull(i)
    \/ \E i \in Items : Metadata(i)
    \/ \E i \in Items : Create(i)
    \/ \E i \in Items : Send(i)
    \/ \E i \in Items : Chunk(i)
    \/ \E i \in Items : WriteAll(i)
    \/ \E i \in Items : BackgroundWrite(i)
    \/ \E i \in Items : Rename(i)
    \/ \E i \in Items : SetMtime(i)
    \/ \E i \in Items : RemoveFile(i)
    \/ PrintSummary

Spec == InitSched /\ [][Next]_vars

\* The download stage of an album of ScenarioItems images, exactly one of
\* them with a link that does not parse, in a directory that holds nothing.
InitScenario ==
    /\ num_files = ScenarioItems
    /\ width = WidthOf(num_files)
    /\ index = 0
    /\ filename = <<>>
    /\ temp_filename = <<>>
    /\ earlier = NoName
    /\ npc = "stream"
    /\ images \in [1..num_files -> SchedMedia]
    /\ url_ok \in { u \in [1..num_files -> BOOLEAN] :
                      Cardinality({ i \in 1..num_files : ~u[i] }) = 1 }
    /\ parallelism \in 1..MaxParallelism
    /\ fs0 = [p \in Paths |-> Absent]
    /\ fs = fs0
    /\ landed = [i \in Items |-> 0]
    /\ mtime = [i \in Items |-> "none"]
    /\ pc = [i \in Items |-> "queued"]
    /\ got = [i \in Items |-> 0]
    /\ pending = [i \in Items |-> FALSE]
    /\ werr = [i \in Items |-> FALSE]
    /\ netcalls = [i \in Items |-> 0]
    /\ result = [i \in Items |-> "none"]
    /\ began = [i \in Items |-> "none"]
    /\ fault = [i \in Items |-> "none"]
    /\ kept_temp = [i \in Items |-> FALSE]
    /\ started = [i \in Items |-> 0]
    /\ yielded = [i \in Items |-> 0]
    /\ errors = <<>>
    /\ downloaded = -1
    /\ pb = [i \in Items |-> NoBar]
    /\ album = "data"
    /\ tree = <<"dir">>
    /\ prepared = <<FoundDirectory(<<"dir">>)>>
    /\ exit_code = -1
    /\ run = 1
    /\ satisfied = [i \in Items |-> FALSE]

\* The program is run again on the same album and destination after a run
\* that printed its summary and whose writes have all reached the disk.  The
\* files the first run left are, for the new run, files that were there
\* before it (inode 0), and fs0 is the directory as the new run finds it.
Rerun ==
    /\ npc = "printed"
    /\ \A i \in Items : ~pending[i]
    /\ run < MaxRuns
    /\ run' = run + 1
    /\ satisfied' = [i \in Items |-> result[i] \in {"Succeeded", "Skipped"}]
    /\ fs' = [p \in Paths |-> IF fs[p].kind = "file" THEN File(0) ELSE fs[p]]
    /\ fs0' = fs'
    /\ landed' = [i \in Items |-> 0]
    /\ mtime' = [i \in Items |-> "none"]
    /\ pc' = [i \in Items |-> "queued"]
    /\ got' = [i \in Items |-> 0]
    /\ pending' = [i \in Items |-> FALSE]
    /\ werr' = [i \in Items |-> FALSE]
    /\ netcalls' = [i \in Items |-> 0]
    /\ result' = [i \in Items |-> "none"]
    /\ began' = [i \in Items |-> "none"]
    /\ fault' = [i \in Items |-> "none"]
    /\ kept_temp' = [i \in Items |-> FALSE]
    /\ started' = [i \in Items |-> 0]
    /\ yielded' = [i \in Items |-> 0]
    /\ errors' = <<>>
    /\ downloaded' = -1
    /\ pb' = [i \in Items |-> NoBar]
    /\ exit_code' = -1
    /\ npc' = "stream"
    /\ UNCHANGED <<num_files, width, index, filename, temp_filename, earlier>>
    /\ UNCHANGED <<inputVars, album, tree, prepared>>

NextRerun ==
    \/ \E i \in Items : Pull(i)
    \/ \E i \in Items : Metadata(i)
    \/ \E i \in Items : Create(i)
    \/ \E i \in Items : Send(i)
    \/ \E i \in Items : Chunk(i)
    \/ \E i \in Items : WriteAll(i)
    \/ \E i \in Items : BackgroundWrite(i)
    \/ \E i \in Items : Rename(i)
    \/ \E i \in Items : SetMtime(i)
    \/ \E i \in Items : RemoveFile(i)
    \/ PrintSummary
    \/ Rerun

\* The download stage, run up to MaxRuns times on the same directory.
SpecRerun == InitSched /\ [][NextRerun]_vars

\* The download stage on the small albums and on the scenario album.
SpecSummary == (InitSched \/ InitScenario) /\ [][Next]_vars

\* The runtime keeps polling the stream and the blocking pool keeps running
\* the operations handed to it.
FairSpec == Spec /\ WF_vars(Next)

(***************************************************************************)
(* main from the album request to the exit of the process.                 *)
(***************************************************************************)
\* A directory with nothing at any of the paths.
EmptyFs == [p \in Paths |-> Absent]

\* The process starts: any album size, any destination path; a destination
\* that is a directory holds anything, any other holds nothing.  `width` has
\* from the start the value main computes from num_files before the stream.
InitMain ==
    /\ num_files \in 0..MaxItems
    /\ width = WidthOf(num_files)
    /\ index = 0
    /\ filename = <<>>
    /\ temp_filename = <<>>
    /\ earlier = NoName
    /\ npc = "album"
    /\ images \in [1..num_files -> SchedMedia]
    /\ url_ok \in [1..num_files -> BOOLEAN]
    /\ parallelism \in 1..MaxParallelism
    /\ tree \in Trees
    /\ fs0 \in IF Stat(tree) = "dir" THEN InitialFs ELSE {EmptyFs}
    /\ fs = fs0
    /\ landed = [i \in Items |-> 0]
    /\ mtime = [i \in Items |-> "none"]
    /\ pc = [i \in Items |-> "queued"]
    /\ got = [i \in Items |-> 0]
    /\ pending = [i \in Items |-> FALSE]
    /\ werr = [i \in Items |-> FALSE]
    /\ netcalls = [i \in Items |-> 0]
    /\ result = [i \in Items |-> "none"]
    /\ began = [i \in Items |-> "none"]
    /\ fault = [i \in Items |-> "none"]
    /\ kept_temp = [i \in Items |-> FALSE]
    /\ started = [i \in Items |-> 0]
    /\ yielded = [i \in Items |-> 0]
    /\ errors = <<>>
    /\ downloaded = -1
    /\ pb = [i \in Items |-> NoBar]
    /\ album = "pending"
    /\ prepared = <<>>
    /\ exit_code = -1
    /\ run = 1
    /\ satisfied = [i \in Items |-> FALSE]

\* The client, the album request and what main does with the answer:
\* build(), send() or json() fails and `?` returns the error; the answer has
\* no data, main prints the status and returns Ok(()); it has data, main
\* prints the details and returns Ok(()) under --details or for an album
\* without images, and goes on to prepare_directory otherwise.
FetchAlbum ==
    /\ npc = "album"
    /\ \E answer \in {"error", "nodata", "details", "data"} :
         /\ album' = IF answer = "data" /\ num_files = 0 THEN "empty" ELSE answer
         /\ npc' = IF answer = "data" /\ num_files > 0 THEN "prepare" ELSE "exit"
         /\ exit_code' = CASE answer = "error" -> 1
                           [] answer = "data" /\ num_files > 0 -> exit_code
                           [] OTHER -> 0
    /\ UNCHANGED <<num_files, width, index, filename, temp_filename, earlier>>
    /\ UNCHANGED <<inputVars, fsVars, futVars, schedVars, pb, rerunVars>>
    /\ UNCHANGED <<tree, prepared>>

\* A main that goes on whatever prepare_directory returned.
ProceedsAnyway(r) == TRUE

\* prepare_directory(destination.clone()).await?: main goes on only on Ok.
Proceeds(r) == r = "Ok"

\* main after prepare_directory has returned: the error leaves main through
\* `?`, Ok leads to the stream.
AfterPrepare ==
    /\ npc = "prepared"
    /\ IF Proceeds(prepared[Len(prepared)].result)
       THEN /\ npc' = "stream"
            /\ exit_code' = exit_code
       ELSE /\ npc' = "exit"
            /\ exit_code' = 1
    /\ UNCHANGED <<num_files, width, index, filename, temp_filename, earlier>>
    /\ UNCHANGED <<inputVars, fsVars, futVars, schedVars, pb, rerunVars>>
    /\ UNCHANGED <<album, tree, prepared>>

NextMain ==
    \/ FetchAlbum
    \/ PrepMetadata
    \/ PrepCreateDirAll
    \/ OtherProcessCreates
    \/ AfterPrepare
    \/ \E i \in Items : Pull(i)
    \/ \E i \in Items : Metadata(i)
    \/ \E i \in Items : Create(i)
    \/ \E i \in Items : Send(i)
    \/ \E i \in Items : Chunk(i)
    \/ \E i \in Items : WriteAll(i)
    \/ \E i \in Items : BackgroundWrite(i)
    \/ \E i \in Items : Rename(i)
    \/ \E i \in Items : SetMtime(i)
    \/ \E i \in Items : RemoveFile(i)
    \/ PrintSummary

SpecMain == InitMain /\ [][NextMain]_vars

(***************************************************************************)
(* Properties of the filename policy (SpecNaming).                         *)
(***************************************************************************)
RECURSIVE Pow10(_)
Pow10(k) == IF k = 0 THEN 1 ELSE 10 * Pow10(k - 1)

\* The number of decimal digits of n, for 1 <= n < 10^9.
DigitCount(n) == CHOOSE k \in 1..9 : Pow10(k - 1) <= n /\ n < Pow10(k)

IsDigit(c) == \E d \in 1..10 : DigitChars[d] = c

DigitValue(c) == (CHOOSE d \in 1..10 : DigitChars[d] = c) - 1

\* The number a string of digits denotes, leading zeros allowed.
RECURSIVE NumberOf(_)
NumberOf(s) ==
    IF s = <<>> THEN 0
    ELSE 10 * NumberOf(SubSeq(s, 1, Len(s) - 1)) + DigitValue(s[Len(s)])

\* C9: once the closure has produced the filename of an image, that filename
\* begins with exactly as many digits as num_files has, these digits are the
\* image's 1-based index padded with zeros, a space follows them, and the
\* filename differs from every filename produced for an earlier image.
PaddedDistinctFilenames ==
    (npc = "map" /\ index > 0) =>
        LET w == DigitCount(num_files) IN
        /\ Len(filename) > w
        /\ \A k \in 1..w : IsDigit(filename[k])
        /\ NumberOf(SubSeq(filename, 1, w)) = index
        /\ filename[w + 1] = " "
        /\ (earlier.idx # -1 => earlier.name # filename)

\* C9 witness: the 100th filename of a 100-image album begins "100 " while
\* the remembered first one begins "001 ".
HundredthFilename ==
    /\ num_files = 100
    /\ index = 100
    /\ SubSeq(filename, 1, 4) = <<"1", "0", "0", " ">>
    /\ earlier.idx = 0
    /\ SubSeq(earlier.name, 1, 4) = <<"0", "0", "1", " ">>

HasSeparator(s) == \E k \in 1..Len(s) : s[k] = "/"

\* C10: no filename the closure produces, and no temp filename built from
\* it, contains the path separator '/'.
NoPathSeparator ==
    ~HasSeparator(filename) /\ ~HasSeparator(temp_filename)

\* The paths the fetch of an image with this filename is given: the final
\* path and the temp path, both joined to the destination.
PathsOf(name) ==
    { Join(Destination, name), Join(Destination, TempFilename(name)) }

\* C17: the final and temp path of an image are both different from the
\* final and temp path of every earlier image of the album, and the temp
\* path the closure builds is one of the image's two paths.
DisjointPaths ==
    (npc = "map" /\ index > 0) =>
        /\ Join(Destination, temp_filename) \in PathsOf(filename)
        /\ earlier.idx # -1 => PathsOf(earlier.name) \cap PathsOf(filename) = {}

\* Two images with the same id, title, description and type: the paths of
\* the second differ from those of the first by the index alone.
SameMediaTwice ==
    /\ num_files = 2
    /\ index = 2
    /\ earlier = [idx |-> 0, name |-> Filename(0, Media(<<"a">>, None, None, Jpeg), 1)]
    /\ filename = Filename(1, Media(<<"a">>, None, None, Jpeg), 1)
    /\ temp_filename = <<"~", "!">> \o filename

(***************************************************************************)
(* Properties of the download stage (Spec, FairSpec).                      *)
(***************************************************************************)
\* The images whose fetch has started and has not yet produced its Outcome.
Unfinished == { i \in Items : started[i] > 0 /\ yielded[i] = 0 }

\* C1: at most `parallelism` fetches have started and not yet produced their
\* Outcome.
AtMostPInFlight == Cardinality(Unfinished) <= parallelism

\* C1 witness: the limit binds: as many fetches as the limit allows are in
\* flight while another image is still waiting in the stream.
LimitBinds ==
    /\ Cardinality(Unfinished) = parallelism
    /\ \E i \in Items : started[i] = 0

\* C2: when the summary is printed every image has produced exactly one
\* Outcome and its fetch was started exactly once; and no image ever has
\* more than one start or more than one Outcome.
ExactlyOneOutcome ==
    /\ \A i \in Items : started[i] <= 1 /\ yielded[i] <= 1
    /\ npc = "printed" =>
         \A i \in Items :
             started[i] = 1 /\ yielded[i] = 1 /\ result[i] # "none"

\* C2 witness: the summary is printed for two images, one that failed and
\* one that did not.
SummaryOfMixedRun ==
    /\ npc = "printed"
    /\ num_files = 2
    /\ Len(errors) = 1

\* C3: under fairness the run reaches the printed summary with an Outcome
\* collected for every image.
EventuallyPrinted ==
    <>(npc = "printed" /\ \A i \in Items : yielded[i] = 1)

\* C3 witness: a run with the limit at 1 and two images, both downloaded
\* chunk by chunk, has printed its summary.
SequentialRunPrinted ==
    /\ npc = "printed"
    /\ parallelism = 1
    /\ num_files = 2
    /\ \A i \in Items : result[i] = "Succeeded" /\ got[i] = MaxChunks

Failures ==
    {"UrlInvalid", "DestinationIsDirectory", "MetadataUnavailable",
     "IoFailure", "NetworkFailure"}

\* The Outcomes image i can have given its own inputs alone: its URL, what
\* the destination held at its final path when the run began, and whether an
\* I/O or network error of its own hit its fetch.
OwnOutcomes(i) ==
    IF ~url_ok[i] THEN {"UrlInvalid"}
    ELSE CASE fs0[Path(i)].kind = "file" -> {"Skipped"}
           [] fs0[Path(i)].kind = "dir" -> {"DestinationIsDirectory"}
           [] fs0[Path(i)].kind = "denied" -> {"MetadataUnavailable"}
           [] OTHER -> IF fault[i] # "none" THEN {"IoFailure", "NetworkFailure"}
                       ELSE {"Succeeded"}

\* C4: whatever happens to the other images, the Outcome of an image is one
\* its own inputs allow, and when the summary is printed every image has
\* been started and has its Outcome.
SiblingsUnaffected ==
    /\ \A i \in Items : pc[i] = "done" => result[i] \in OwnOutcomes(i)
    /\ npc = "printed" => \A i \in Items : started[i] = 1 /\ pc[i] = "done"

\* C4 witness: with both fetches admitted at once, the first image failed in
\* mid-stream and the second, started before that failure, succeeded.
FailureBesideSuccess ==
    /\ num_files = 2
    /\ parallelism = 2
    /\ result[1] = "NetworkFailure" /\ got[1] > 0
    /\ result[2] = "Succeeded"
    /\ Len(errors) = 1
    /\ errors[1].item = 1
    /\ errors[1].cause = "NetworkFailure"

\* The body of image i has been received to its end.
BodyEnded(i) == pc[i] \in {"rename", "mtime", "remove", "done"}
                  /\ result[i] # "NetworkFailure"

\* C5: a regular file at an image's final path was either there before the
\* run or holds every chunk of the completely received body.
FinalFileComplete ==
    \A i \in Items :
        (fs[Path(i)].kind = "file" /\ fs[Path(i)].ino # 0) =>
            /\ BodyEnded(fs[Path(i)].ino)
            /\ landed[fs[Path(i)].ino] = got[fs[Path(i)].ino]

ExistingFileSkipped ==
    \A i \in Items :
        (pc[i] = "done" /\ fs0[Path(i)].kind = "file") =>
            result[i] = "Skipped" /\ netcalls[i] = 0

\* C8: a fetch whose final path held a directory when the run began ends
\* Failed with DestinationIsDirectory, without a network call, and the
\* directory is still there.
ExistingDirectoryFails ==
    \A i \in Items :
        (pc[i] = "done" /\ fs0[Path(i)].kind = "dir") =>
            /\ result[i] = "DestinationIsDirectory"
            /\ netcalls[i] = 0
            /\ fs[Path(i)] = Dir

\* Fewer fetches than the limit are started and unfinished, and image i is
\* the first of the album that has not been started.
RoomFor(i) ==
    /\ i \in Items
    /\ npc = "stream"
    /\ Cardinality(Unfinished) < parallelism
    /\ started[i] = 0
    /\ \A j \in 1..(i - 1) : started[j] > 0

\* C18: a fetch is started only when every earlier image of the album has
\* been started; whenever fewer fetches than the limit are unfinished and an
\* image is still unstarted, the first unstarted image can be started at
\* once, with nothing else having to happen first; and under fairness it is
\* started.
WorkConservingInOrder ==
    /\ [][\A i \in Items :
             started'[i] > started[i] => \A j \in 1..(i - 1) : started[j] > 0]_vars
    /\ [](\A i \in Items : RoomFor(i) => ENABLED Pull(i))
    /\ \A i \in 1..MaxItems : RoomFor(i) ~> (i \in Items /\ started[i] > 0)

\* With the limit at 1 the second image was started once the first fetch
\* had ended, and is in flight.
SecondStartedAfterFirst ==
    /\ parallelism = 1
    /\ num_files = 2
    /\ pc[1] = "done"
    /\ yielded[1] = 1
    /\ started[2] = 1
    /\ pc[2] = "send"

(***************************************************************************)
(* Properties of the limit (Spec).                                         *)
(***************************************************************************)
\* What the fetch of image i ends with, from the image's own inputs alone:
\* its URL, what the directory held at its final path when the run began,
\* and the operation of its own that the environment made fail.
ExpectedOutcome(i) ==
    IF ~url_ok[i] THEN "UrlInvalid"
    ELSE CASE fs0[Path(i)].kind = "file" -> "Skipped"
           [] fs0[Path(i)].kind = "dir" -> "DestinationIsDirectory"
           [] fs0[Path(i)].kind = "denied" -> "MetadataUnavailable"
           [] OTHER -> CASE fault[i] = "none" -> "Succeeded"
                         [] fault[i] \in {"send", "chunk"} -> "NetworkFailure"
                         [] OTHER -> "IoFailure"

\* The fetch of image i gets as far as the download.
Downloads(i) == url_ok[i] /\ fs0[Path(i)].kind = "absent"

\* The entry expected at the final path of image i when the run is over.
ExpectedFinal(i) ==
    IF Downloads(i) /\ fault[i] \in {"none", "mtime"}
    THEN File(i)
    ELSE fs0[Path(i)]

\* The entry expected at the temp path of image i when the run is over.
ExpectedTemp(i) ==
    CASE ExpectedOutcome(i) = "Skipped" -> fs0[TempPath(i)]
      [] Downloads(i) /\ fault[i] \in {"none", "mtime"} -> Absent
      [] kept_temp[i] ->
            IF Downloads(i) /\ fault[i] # "create"
            THEN File(i)
            ELSE fs0[TempPath(i)]
      [] OTHER -> Absent

\* The run is over and the blocking pool has nothing left to write.
RunOver == npc = "printed" /\ \A i \in Items : ~pending[i]

\* C11: a run with limit 1 and a run with limit N on the same images, the
\* same directory and the same behaviour of the network and the disk for each
\* image end with the same Outcomes and the same directory entries and file
\* lengths: under every limit and every interleaving, the Outcome of each
\* image, the entries at its two paths and the length of its final file are
\* the values its own inputs determine.
SameResultUnderEveryLimit ==
    RunOver =>
        \A i \in Items :
            /\ result[i] = ExpectedOutcome(i)
            /\ fs[Path(i)] = ExpectedFinal(i)
            /\ fs[TempPath(i)] = ExpectedTemp(i)
            /\ fs[Path(i)] = File(i) =>
                   landed[i] = got[i] - (IF werr[i] THEN 1 ELSE 0)

\* Two images were fetched under limit 2 in a directory that held a stale
\* temp file of the second; one was downloaded, the other lost its connection.
ParallelRunOver ==
    /\ RunOver
    /\ parallelism = 2
    /\ num_files = 2
    /\ result[1] = "Succeeded"
    /\ result[2] = "NetworkFailure"
    /\ errors # <<>>
    /\ got[1] = MaxChunks
    /\ fs0[TempPath(2)] = File(0)

(***************************************************************************)
(* Properties of main (SpecMain) and of prepare_directory (SpecPrepare).   *)
(***************************************************************************)
\* prepare_directory has returned to main, with an error.
PrepareFailed ==
    /\ prepared # <<>>
    /\ prepared[1].result \notin {"running", "Ok"}

\* C12: a destination that is a regular file makes prepare_directory fail
\* with DestinationIsFile, one whose metadata cannot be read with
\* MetadataUnavailable; and once prepare_directory has failed the run is
\* over: the process exits without having started a fetch, sent a request
\* for a file, touched a temp or final path or produced an Outcome.
NothingFetchedAfterFailedPrepare ==
    /\ (prepared # <<>> /\ prepared[1].saw = "file") =>
           prepared[1].result = "DestinationIsFile"
    /\ (prepared # <<>> /\ prepared[1].saw \in {"PermissionDenied", "Other"}) =>
           prepared[1].result = "MetadataUnavailable"
    /\ PrepareFailed =>
           /\ npc \in {"prepared", "exit"}
           /\ npc = "exit" => exit_code = 1
           /\ fs = fs0
           /\ errors = <<>>
           /\ downloaded = -1
           /\ \A i \in Items :
                  /\ started[i] = 0
                  /\ pc[i] = "queued"
                  /\ netcalls[i] = 0
                  /\ result[i] = "none"
                  /\ yielded[i] = 0

\* The destination of a two-image album is a regular file, and the process
\* has exited on prepare_directory's error.
ExitedOnDestinationIsFile ==
    /\ num_files = 2
    /\ tree = <<"file">>
    /\ PrepareFailed
    /\ prepared[1].result = "DestinationIsFile"
    /\ npc = "exit"
    /\ exit_code = 1

\* C15: the process exits with a non-zero status exactly when the album
\* request failed, be it by an error or by an answer without album data;
\* in particular a run that got as far as the summary exits with 0 however
\* many fetches failed.
ExitNonZeroOnlyForAlbumFailure ==
    /\ exit_code # -1 => (exit_code # 0 <=> album \in {"error", "nodata"})
    /\ npc = "printed" => exit_code = 0

Satisfied == { i \in Items : result[i] \in {"Succeeded", "Skipped"} }

Failed == { i \in Items : result[i] \in Failures }

\* C13: the printed summary counts the images that ended Succeeded or
\* Skipped, out of num_files, and lists exactly one error for every image
\* that failed, and no other: the error names the image's filename and the
\* cause it failed with.
SummaryCountsOutcomes ==
    npc = "printed" =>
        /\ downloaded = Cardinality(Satisfied)
        /\ Len(errors) = Cardinality(Failed)
        /\ \A i \in Failed :
               \E k \in 1..Len(errors) :
                   /\ errors[k].item = i
                   /\ errors[k].file = Filename(i - 1, images[i], width)
                   /\ errors[k].cause = result[i]
                   /\ \A j \in 1..Len(errors) : errors[j].item = i => j = k
        /\ \A k \in 1..Len(errors) : errors[k].item \in Failed

\* The scenario: of three images in an empty directory the one with the
\* malformed link failed and the two others were downloaded; the summary
\* says 2 of 3 and lists one error.
TwoOfThreeDownloaded ==
    /\ npc = "printed"
    /\ num_files = 3
    /\ \E i \in Items :
           /\ result[i] = "UrlInvalid"
           /\ \A j \in Items \ {i} : result[j] = "Succeeded"
           /\ Len(errors) = 1
           /\ errors[1].item = i
           /\ errors[1].cause = "UrlInvalid"
    /\ downloaded = 2

(***************************************************************************)
(* Properties of the progress bars (Spec).                                 *)
(***************************************************************************)
\* C14: the progress bar of an image stands at what its fetch has received
\* so far, one unit per chunk, so it never goes back; and once the fetch has
\* ended, Succeeded, Skipped or Failed, the bar has been finished and
\* cleared from the display.
ProgressBarFinalized ==
    \A i \in Items :
        /\ pb[i].position = got[i]
        /\ pc[i] = "done" => pb[i].state = "finished"

(***************************************************************************)
(* Outcome and file system (Spec).                                         *)
(***************************************************************************)
\* C20: once a fetch has ended, its Outcome agrees with the directory: after
\* Succeeded the final path holds the fetch's file with every received chunk
\* in it and the supplied timestamp as its modification time; after a
\* failure, nothing is at a final path that was absent when the run began.
OutcomeMatchesFiles ==
    \A i \in Items :
        pc[i] = "done" =>
            /\ result[i] = "Succeeded" =>
                   /\ fs[Path(i)] = File(i)
                   /\ landed[i] = got[i]
                   /\ mtime[i] = "stamp"
            /\ (result[i] \in Failures /\ fs0[Path(i)].kind = "absent") =>
                   fs[Path(i)].kind = "absent"

(***************************************************************************)
(* Properties of a second run (SpecRerun).                                 *)
(***************************************************************************)
\* C19: in a run that follows a completed run on the same album and
\* directory, the fetch of an image that ended Succeeded or Skipped before
\* sends no request, never gets past the metadata check, leaves the entries
\* at its final and temp path as the run found them, and ends Skipped.
SatisfiedImagesSkippedAgain ==
    run > 1 =>
        \A i \in Items :
            satisfied[i] =>
                /\ pc[i] \in {"queued", "metadata", "done"}
                /\ netcalls[i] = 0
                /\ fs[Path(i)] = fs0[Path(i)]
                /\ fs[Path(i)] = File(0)
                /\ fs[TempPath(i)] = fs0[TempPath(i)]
                /\ pc[i] = "done" => result[i] = "Skipped"

\* The second run has printed its summary: the image the first run had
\* downloaded was skipped, the one the first run had failed on was
\* downloaded now.
SecondRunSkippedFirstImage ==
    /\ run = 2
    /\ npc = "printed"
    /\ num_files = 2
    /\ satisfied = <<TRUE, FALSE>>
    /\ fs0[Path(2)] = Absent
    /\ result = <<"Skipped", "Succeeded">>
    /\ downloaded = 2
====
